---------------------------- MODULE Spec2Model ----------------------------
(***************************************************************************)
(* Payment reconciliation of the booking system: the payments route        *)
(* (CreateIntent = POST, ConfirmIntent = PUT), the Stripe webhook route    *)
(* and the booking routes, over the Prisma store (Booking, Payment) and    *)
(* the payment gateway.                                                    *)
(*                                                                         *)
(* Every request handler is an async function: it runs without             *)
(* interruption between two awaits, and other handlers run while it waits. *)
(* A handler in flight occupies a slot of reqs; each action below is one   *)
(* stretch of a handler from one awaited store or gateway call to the      *)
(* next, taken at the moment the awaited call takes effect.                *)
(*                                                                         *)
(* The model covers a deployment whose environment sets STRIPE_SECRET_KEY  *)
(* and STRIPE_WEBHOOK_SECRET (StripeConfigured, WebhookSecret).            *)
(***************************************************************************)
EXTENDS Integers, Sequences, FiniteSets

\* ------------------------------------------------------------ bounds
MaxBookings == 1
MaxPayments == 2
MaxInflight == 2
MaxRaced == 1
MaxClock == 1

\* ------------------------------------------------------------ program values
NULL == 0

StripeConfigured == TRUE

WebhookSecret == "whsec"

ForeignSecret == "other"

RoofingPrice == 150

PaymentStatuses == {"pending", "succeeded", "failed", "refunded"}

BookingStatuses == {"pending", "confirmed", "completed", "cancelled"}

EventTypes == {"payment_intent.succeeded", "payment_intent.payment_failed",
               "charge.refunded", "payment_intent.created"}

\* Request inputs: 0 is a missing (falsy) field.
InputAmounts == {0, RoofingPrice \div 2}

InputPaymentTypes == {"", "deposit", "full"}

\* A request body can carry any string as its paymentType.
OtherPaymentType == "monthly"

\* A request body can carry any JSON number as its amount, a negative one
\* included.
NegativeAmount == 0 - (RoofingPrice \div 2)

VARIABLES
    bookings,   \* Booking table: sequence of rows, id = index
    payments,   \* Payment table: sequence of rows, id = index
    intents,    \* the gateway's payment intents, id = index
    reqs        \* request handlers: slot -> handler state

vars == <<bookings, payments, intents, reqs>>

\* The instants new Date() can return.
Instants == 1..MaxClock

Slots == 1..MaxInflight

\* ------------------------------------------------------------ signatures
NoEvent == [type |-> "", id |-> NULL, bookingId |-> NULL, paymentType |-> "",
            charge |-> NULL]

\* The provider's signature of a body under a key (an HMAC, taken as
\* collision free).
Sign(body, key) == [body |-> body, key |-> key]

\* A verification that checks the key of the signature and not the body it
\* was computed over.
ConstructEventAcceptsAnyBody(body, signature, secret) == signature.key = secret

\* stripe.webhooks.constructEvent: throws unless the signature is the one of
\* this very body under the endpoint's secret.
ConstructEventAccepts(body, signature, secret) == signature = Sign(body, secret)

\* ------------------------------------------------------------ handler slots
Idle == [kind |-> "idle", pc |-> "idle", bookingId |-> NULL, amount |-> NULL,
         paymentType |-> "", intentId |-> NULL, paymentId |-> NULL,
         charge |-> NULL, body |-> NoEvent, sig |-> Sign(NoEvent, ""),
         code |-> 0, success |-> FALSE,
         wroteP |-> FALSE, wroteB |-> FALSE, rival |-> FALSE,
         unavailable |-> FALSE]

Busy(s) == reqs[s].pc \notin {"idle", "done"}

\* A request is taken up by the first handler slot that is free.
FreeSlot(s) == reqs[s] = Idle /\ \A t \in Slots : t < s => reqs[t] # Idle

\* A handler has run to its return statement; the response leaves before
\* any other handler runs on (Returns, below).
Returning == \E s \in Slots : reqs[s].pc = "done"

\* The slots in which a handler may start or take a step: none while a
\* response is leaving.
Ready == IF Returning THEN {} ELSE Slots

\* NextResponse.json(..., {status}): the handler returns.
Respond(r, code, success) == [r EXCEPT !.pc = "done", !.code = code, !.success = success]


\* ------------------------------------------------------------ gateway
IntentIds == DOMAIN intents

\* stripe.paymentIntents.create: a new intent, awaiting a payment method,
\* carrying the caller's metadata; the amount is in minor units. acked is
\* the gateway's record that its payment_intent.succeeded event has been
\* answered 200 (used by the redelivering gateway, below).
NewIntent(bookingId, amount, paymentType) ==
    [status |-> "requires_payment_method", bookingId |-> bookingId,
     paymentType |-> paymentType, amount |-> amount * 100, currency |-> "usd",
     charge |-> NULL, failedEv |-> FALSE, refunded |-> FALSE, acked |-> FALSE]

\* The charge of intent i: the gateway issues one charge id per captured intent.
ChargeOf(i) == i

\* typeof latest_charge === 'string' ? latest_charge : null
LatestCharge(c) == IF c \in 1..MaxPayments THEN c ELSE NULL

\* The event objects the gateway has emitted so far; it delivers each of them
\* at least once, at any later time and in any order.
IntentEvent(type, i) ==
    [type |-> type, id |-> i, bookingId |-> intents[i].bookingId,
     paymentType |-> intents[i].paymentType,
     charge |-> IF type = "payment_intent.succeeded" THEN intents[i].charge ELSE NULL]

ChargeEvent(i) ==
    [type |-> "charge.refunded", id |-> ChargeOf(i), bookingId |-> intents[i].bookingId,
     paymentType |-> intents[i].paymentType, charge |-> ChargeOf(i)]

EmittedEvents ==
    {IntentEvent("payment_intent.created", i) : i \in IntentIds}
    \cup {IntentEvent("payment_intent.payment_failed", i) : i \in {j \in IntentIds : intents[j].failedEv}}
    \cup {IntentEvent("payment_intent.succeeded", i) : i \in {j \in IntentIds : intents[j].status = "succeeded"}}
    \cup {ChargeEvent(i) : i \in {j \in IntentIds : intents[j].refunded}}

\* Bodies a sender without the secret can put together: any event type about
\* any intent or charge of the account.
CandidateEvents ==
    {[IntentEvent("payment_intent.succeeded", i) EXCEPT !.charge = ChargeOf(i)] : i \in IntentIds}
    \cup {IntentEvent("payment_intent.payment_failed", i) : i \in IntentIds}
    \cup {ChargeEvent(i) : i \in IntentIds}

\* ------------------------------------------------------------ store
BookingIds == DOMAIN bookings

PaymentIds == DOMAIN payments

\* prisma.booking.create of the bookings route.
NewBookingRow(price) ==
    [status |-> "pending", totalAmount |-> price, depositAmount |-> price \div 2]

\* A create that stores the row as already paid.
NewPaymentRowPaid(bookingId, amount, paymentType, intentId) ==
    [bookingId |-> bookingId, amount |-> amount, currency |-> "usd",
     status |-> "succeeded", paymentType |-> paymentType, intentId |-> intentId,
     chargeId |-> NULL, paidAt |-> NULL]

\* prisma.payment.create of CreateIntent.
NewPaymentRow(bookingId, amount, paymentType, intentId) ==
    [bookingId |-> bookingId, amount |-> amount, currency |-> "usd",
     status |-> "pending", paymentType |-> paymentType, intentId |-> intentId,
     chargeId |-> NULL, paidAt |-> NULL]

\* findUnique({where: {stripePaymentIntentId}}): the row's id, or NULL.
FindByIntent(pays, iid) ==
    IF \E p \in DOMAIN pays : pays[p].intentId = iid
    THEN CHOOSE p \in DOMAIN pays : pays[p].intentId = iid
    ELSE NULL

\* A lookup of the charge id in the intent id column.
FindByChargeViaIntent(pays, ch) == FindByIntent(pays, ch)

\* findUnique({where: {stripeChargeId}}): the row's id, or NULL.
FindByCharge(pays, ch) ==
    IF \E p \in DOMAIN pays : pays[p].chargeId = ch
    THEN CHOOSE p \in DOMAIN pays : pays[p].chargeId = ch
    ELSE NULL

\* The unique indexes of Payment: a write that would give two rows the same
\* intent id, or the same non-null charge id, throws.
IntentIdTaken(pays, iid) == \E p \in DOMAIN pays : pays[p].intentId = iid

\* A Payment table without the unique index on the charge id.
ChargeIdNeverTaken(pays, pid, ch) == FALSE

ChargeIdTaken(pays, pid, ch) ==
    ch # NULL /\ \E q \in DOMAIN pays : q # pid /\ pays[q].chargeId = ch

\* prisma.payment.update({where: {id}}) throws when no row has the id.
PaymentUpdateThrows(pays, pid, ch) == pid \notin DOMAIN pays \/ ChargeIdTaken(pays, pid, ch)

BookingUpdateThrows(bks, bid) == bid \notin DOMAIN bks

\* data: {status: 'succeeded', stripeChargeId, paidAt: new Date()}
SucceededData(row, ch, now) == [row EXCEPT !.status = "succeeded", !.chargeId = ch, !.paidAt = now]

\* A failure write that also detaches the row from its gateway intent.
FailedDataDetaches(row) == [row EXCEPT !.status = "failed", !.intentId = NULL]

\* data: {status: 'failed'}
FailedData(row) == [row EXCEPT !.status = "failed"]

\* data: {status: 'refunded'}
RefundedData(row) == [row EXCEPT !.status = "refunded"]

\* prisma.booking.update({where: {id}, data: {status: 'confirmed'}})
ConfirmedData(row) == [row EXCEPT !.status = "confirmed"]

Store(pays, bks, r) == [payments |-> pays, bookings |-> bks, r |-> r]

\* The gateway intents whose Payment rows a handler reads or writes. Handlers
\* that concern no common intent touch different Payment rows: their store
\* calls commute, so the model runs them one after the other and interleaves
\* only handlers that concern a common intent. A request that is answered in
\* its first step makes one lookup and no write: it is taken between the
\* other handlers, or while a CreateIntent for its intent has yet to persist
\* the Payment row (then the lookup finds nothing). Handlers overlap while
\* the gateway holds at most MaxRaced intents.
Concerns(r) ==
    IF r.kind = "webhook" THEN {r.body.id}
    ELSE IF r.kind = "confirm"
         THEN {r.intentId} \cup {payments[p].intentId : p \in {r.paymentId} \cap DOMAIN payments}
    ELSE IF r.kind = "create" THEN {r.intentId} \ {NULL}
    ELSE {}

\* The first step of a handler may be taken now.
Admits(s, r) ==
    /\ ~Returning
    /\ FreeSlot(s)
    /\ \A t \in Slots :
          Busy(t) => /\ r.pc # "done" \/ reqs[t].kind = "create"
                     /\ Len(intents) <= MaxRaced
                     /\ Concerns(reqs[t]) \cap Concerns(r) # {}

\* A ConfirmIntent handler and a payment_intent.succeeded handler at work on
\* the same Payment for the same intent.
Rivals(x, y) ==
    \/ /\ x.kind = "confirm" /\ y.kind = "webhook"
       /\ y.body.type = "payment_intent.succeeded" /\ y.body.id = x.intentId
       /\ y.paymentId = x.paymentId
    \/ /\ y.kind = "confirm" /\ x.kind = "webhook"
       /\ x.body.type = "payment_intent.succeeded" /\ x.body.id = y.intentId
       /\ x.paymentId = y.paymentId

\* The store and the handler of slot s after one of its steps. rival is
\* history only: it marks a handler in flight whose rival has just written
\* the Booking's confirmation.
Advance(s, st) ==
    /\ payments' = st.payments
    /\ bookings' = st.bookings
    /\ reqs' = [t \in Slots |->
                  IF t = s THEN st.r
                  ELSE IF Busy(t) /\ Rivals(reqs[t], st.r) /\ st.r.wroteB
                       THEN [reqs[t] EXCEPT !.rival = TRUE]
                       ELSE reqs[t]]
    /\ UNCHANGED intents

\* ------------------------------------------------------------ CreateIntent
\* A create that accepts only the amount the Booking prescribes for the
\* payment type.
CreateBeginChecked(bks, bookingId, amount, paymentType) ==
    LET r0 == [Idle EXCEPT !.kind = "create", !.bookingId = bookingId, !.amount = amount,
                           !.paymentType = IF paymentType = "" THEN "deposit" ELSE paymentType]
    IN  IF bookingId = NULL \/ amount = NULL THEN Respond(r0, 400, FALSE)
        ELSE IF bookingId \notin DOMAIN bks THEN Respond(r0, 400, FALSE)
        ELSE IF amount # (IF r0.paymentType = "full" THEN bks[bookingId].totalAmount
                                                    ELSE bks[bookingId].depositAmount)
             THEN Respond(r0, 400, FALSE)
        ELSE [r0 EXCEPT !.pc = "gateway_create"]

\* POST /api/payments up to its first awaited store call: the body is parsed,
\* paymentType defaults to 'deposit', the required fields are checked and the
\* Booking is looked up.
CreateBegin(bks, bookingId, amount, paymentType) ==
    LET r0 == [Idle EXCEPT !.kind = "create", !.bookingId = bookingId, !.amount = amount,
                           !.paymentType = IF paymentType = "" THEN "deposit" ELSE paymentType]
    IN  IF ~StripeConfigured THEN Respond(r0, 500, FALSE)
        ELSE IF bookingId = NULL \/ amount = NULL THEN Respond(r0, 400, FALSE)
        ELSE IF bookingId \notin DOMAIN bks THEN Respond(r0, 400, FALSE)
        ELSE [r0 EXCEPT !.pc = "gateway_create"]

\* Creates that will still ask the gateway for an intent.
PendingCreates == Cardinality({s \in Slots : reqs[s].kind = "create" /\ reqs[s].pc = "gateway_create"})

CreateIntentStart(s, bookingId, amount, paymentType) ==
    LET r == CreateBegin(bookings, bookingId, amount, paymentType)
    IN  /\ Admits(s, r)
        /\ r.pc = "gateway_create" => Len(intents) + PendingCreates < MaxPayments
        /\ reqs' = [reqs EXCEPT ![s] = r]
    /\ UNCHANGED <<bookings, payments, intents>>

\* await stripe.paymentIntents.create(...) returns the new intent.
CreateGatewayCreate(s) ==
    /\ ~Returning
    /\ reqs[s].kind = "create" /\ reqs[s].pc = "gateway_create"
    /\ intents' = Append(intents, NewIntent(reqs[s].bookingId, reqs[s].amount, reqs[s].paymentType))
    /\ reqs' = [reqs EXCEPT ![s] = [@ EXCEPT !.pc = "payment_create", !.intentId = Len(intents) + 1]]
    /\ UNCHANGED <<bookings, payments>>

\* A create that persists the Payment row before it asks the gateway, and
\* leaves the row behind when the gateway call throws.
CreateGatewayFailsLeavesRow(s) ==
    /\ ~Returning
    /\ reqs[s].kind = "create" /\ reqs[s].pc = "gateway_create"
    /\ payments' = Append(payments, [bookingId |-> reqs[s].bookingId, amount |-> reqs[s].amount,
                                      currency |-> "usd", status |-> "pending",
                                      paymentType |-> reqs[s].paymentType, intentId |-> NULL,
                                      chargeId |-> NULL, paidAt |-> NULL])
    /\ reqs' = [reqs EXCEPT ![s] = Respond(@, 500, FALSE)]
    /\ UNCHANGED <<bookings, intents>>

\* await stripe.paymentIntents.create(...) throws: the catch answers 500.
CreateGatewayFails(s) ==
    /\ ~Returning
    /\ reqs[s].kind = "create" /\ reqs[s].pc = "gateway_create"
    /\ reqs' = [reqs EXCEPT ![s] = Respond(@, 500, FALSE)]
    /\ UNCHANGED <<bookings, payments, intents>>

\* await prisma.payment.create(...), then the 200 response.
CreatePaymentCreate(s) ==
    /\ ~Returning
    /\ reqs[s].kind = "create" /\ reqs[s].pc = "payment_create"
    /\ IF IntentIdTaken(payments, reqs[s].intentId)
       THEN /\ reqs' = [reqs EXCEPT ![s] = Respond(@, 500, FALSE)]
            /\ UNCHANGED payments
       ELSE /\ payments' = Append(payments, NewPaymentRow(reqs[s].bookingId, reqs[s].amount,
                                                           reqs[s].paymentType, reqs[s].intentId))
            /\ reqs' = [reqs EXCEPT ![s] = Respond([@ EXCEPT !.paymentId = Len(payments) + 1,
                                                              !.wroteP = TRUE], 200, TRUE)]
    /\ UNCHANGED <<bookings, intents>>

\* ------------------------------------------------------------ ConfirmIntent
\* A confirmation that takes an intent still in processing for a captured one.
ConfirmBeginEager(ints, paymentIntentId, paymentId) ==
    LET r0 == [Idle EXCEPT !.kind = "confirm", !.intentId = paymentIntentId, !.paymentId = paymentId]
    IN  IF paymentIntentId = NULL \/ paymentId = NULL THEN Respond(r0, 400, FALSE)
        ELSE IF paymentIntentId \notin DOMAIN ints THEN Respond(r0, 500, FALSE)
        ELSE IF ints[paymentIntentId].status \in {"succeeded", "processing"}
             THEN [r0 EXCEPT !.pc = "payment_update", !.charge = LatestCharge(ints[paymentIntentId].charge)]
        ELSE Respond(r0, 400, FALSE)

\* PUT /api/payments up to its first store call: the required fields are
\* checked and the intent is retrieved from the gateway.
ConfirmBegin(ints, paymentIntentId, paymentId) ==
    LET r0 == [Idle EXCEPT !.kind = "confirm", !.intentId = paymentIntentId, !.paymentId = paymentId]
    IN  IF ~StripeConfigured THEN Respond(r0, 500, FALSE)
        ELSE IF paymentIntentId = NULL \/ paymentId = NULL THEN Respond(r0, 400, FALSE)
        ELSE IF paymentIntentId \notin DOMAIN ints THEN Respond(r0, 500, FALSE)
        ELSE IF ints[paymentIntentId].status = "succeeded"
             THEN [r0 EXCEPT !.pc = "payment_update", !.charge = LatestCharge(ints[paymentIntentId].charge)]
        ELSE IF ints[paymentIntentId].status = "processing" THEN Respond(r0, 200, FALSE)
        ELSE Respond(r0, 400, FALSE)

\* A confirmation of the Booking after any payment, deposit or full.
ConfirmConfirmsAnyPayment(payment) == payment.paymentType \in {"deposit", "full"}

\* if (payment.paymentType === 'full'), on the row the update returned.
ConfirmConfirmsBooking(payment) == payment.paymentType = "full"

\* One awaited store call of ConfirmIntent and the code up to the next one.
ConfirmStep(db, now) ==
    LET r == db.r
    IN  IF r.pc = "payment_update"
        THEN IF PaymentUpdateThrows(db.payments, r.paymentId, r.charge)
             THEN Store(db.payments, db.bookings, Respond(r, 500, FALSE))
             ELSE LET pays == [db.payments EXCEPT ![r.paymentId] = SucceededData(@, r.charge, now)]
                      payment == pays[r.paymentId]
                      r1 == [r EXCEPT !.wroteP = TRUE, !.paymentType = payment.paymentType,
                                      !.bookingId = payment.bookingId]
                  IN  IF ConfirmConfirmsBooking(payment)
                      THEN Store(pays, db.bookings, [r1 EXCEPT !.pc = "booking_update"])
                      ELSE Store(pays, db.bookings, Respond(r1, 200, TRUE))
        ELSE IF r.pc = "booking_update"
        THEN IF BookingUpdateThrows(db.bookings, r.bookingId)
             THEN Store(db.payments, db.bookings, Respond(r, 500, FALSE))
             ELSE Store(db.payments,
                        [db.bookings EXCEPT ![r.bookingId] = ConfirmedData(@)],
                        Respond([r EXCEPT !.wroteB = TRUE], 200, TRUE))
        ELSE db

ConfirmIntentStart(s, paymentIntentId, paymentId) ==
    /\ Admits(s, ConfirmBegin(intents, paymentIntentId, paymentId))
    /\ reqs' = [reqs EXCEPT ![s] = ConfirmBegin(intents, paymentIntentId, paymentId)]
    /\ UNCHANGED <<bookings, payments, intents>>

ConfirmPaymentUpdate(s) ==
    /\ ~Returning
    /\ reqs[s].kind = "confirm" /\ reqs[s].pc = "payment_update"
    /\ \E now \in Instants : Advance(s, ConfirmStep(Store(payments, bookings, reqs[s]), now))

ConfirmBookingUpdate(s) ==
    /\ ~Returning
    /\ reqs[s].kind = "confirm" /\ reqs[s].pc = "booking_update"
    /\ Advance(s, ConfirmStep(Store(payments, bookings, reqs[s]), NULL))

\* ------------------------------------------------------------ webhook
\* A receiver that rejects the event types it has no handler for.
WebhookBeginStrict(pays, body, signature) ==
    LET r0 == [Idle EXCEPT !.kind = "webhook", !.body = body, !.sig = signature]
        found == IF body.type = "charge.refunded"
                 THEN FindByCharge(pays, body.id)
                 ELSE FindByIntent(pays, body.id)
    IN  IF ~ConstructEventAccepts(body, signature, WebhookSecret) THEN Respond(r0, 400, FALSE)
        ELSE IF body.type \in {"payment_intent.succeeded", "payment_intent.payment_failed",
                               "charge.refunded"}
             THEN IF found = NULL
                  THEN Respond(r0, 200, TRUE)
                  ELSE [r0 EXCEPT !.pc = "payment_update", !.paymentId = found]
        ELSE Respond(r0, 400, FALSE)

\* POST /api/webhooks/stripe up to its first store call: the signature is
\* verified against the raw body, the event is dispatched on its type and
\* the handler looks the Payment up.
WebhookBegin(pays, body, signature) ==
    LET r0 == [Idle EXCEPT !.kind = "webhook", !.body = body, !.sig = signature]
        found == IF body.type = "charge.refunded"
                 THEN FindByCharge(pays, body.id)
                 ELSE FindByIntent(pays, body.id)
    IN  IF ~StripeConfigured THEN Respond(r0, 500, FALSE)
        ELSE IF ~ConstructEventAccepts(body, signature, WebhookSecret) THEN Respond(r0, 400, FALSE)
        ELSE IF body.type \in {"payment_intent.succeeded", "payment_intent.payment_failed",
                               "charge.refunded"}
             THEN IF found = NULL
                  THEN Respond(r0, 200, TRUE)
                  ELSE [r0 EXCEPT !.pc = "payment_update", !.paymentId = found]
        ELSE Respond(r0, 200, TRUE)

\* The row handlePaymentSucceeded, handlePaymentFailed and handleChargeRefunded
\* write over the Payment they found.
WebhookData(row, body, now) ==
    IF body.type = "payment_intent.succeeded" THEN SucceededData(row, LatestCharge(body.charge), now)
    ELSE IF body.type = "payment_intent.payment_failed" THEN FailedData(row)
    ELSE RefundedData(row)

\* if (paymentType === 'full'), on the intent's metadata.
WebhookConfirmsBooking(body) == body.paymentType = "full"

\* One awaited store call of an event handler and the code up to the next
\* one; whatever a store call throws is caught and logged, and POST answers
\* {received: true}.
WebhookStep(db, now) ==
    LET r == db.r
        ch == IF r.body.type = "payment_intent.succeeded" THEN LatestCharge(r.body.charge) ELSE NULL
    IN  IF r.pc = "payment_update"
        THEN IF PaymentUpdateThrows(db.payments, r.paymentId, ch)
             THEN Store(db.payments, db.bookings, Respond(r, 200, TRUE))
             ELSE LET pays == [db.payments EXCEPT ![r.paymentId] = WebhookData(@, r.body, now)]
                      r1 == [r EXCEPT !.wroteP = TRUE]
                  IN  IF r.body.type = "payment_intent.succeeded" /\ WebhookConfirmsBooking(r.body)
                      THEN Store(pays, db.bookings, [r1 EXCEPT !.pc = "booking_update"])
                      ELSE Store(pays, db.bookings, Respond(r1, 200, TRUE))
        ELSE IF r.pc = "booking_update"
        THEN IF BookingUpdateThrows(db.bookings, r.body.bookingId)
             THEN Store(db.payments, db.bookings, Respond(r, 200, TRUE))
             ELSE Store(db.payments,
                        [db.bookings EXCEPT ![r.body.bookingId] = ConfirmedData(@)],
                        Respond([r EXCEPT !.wroteB = TRUE], 200, TRUE))
        ELSE db

\* The gateway delivers an event it emitted, signed with the endpoint's secret.
WebhookDeliver(s, body) ==
    /\ body \in EmittedEvents
    /\ Admits(s, WebhookBegin(payments, body, Sign(body, WebhookSecret)))
    /\ reqs' = [reqs EXCEPT ![s] = WebhookBegin(payments, body, Sign(body, WebhookSecret))]
    /\ UNCHANGED <<bookings, payments, intents>>

\* Anyone else posts to the endpoint: a body signed with a key that is not the
\* secret, or a body under the replayed signature of another, genuine event.
WebhookForged(s, body, signature) ==
    /\ body \in CandidateEvents
    /\ Admits(s, WebhookBegin(payments, body, signature))
    /\ \/ signature = Sign(body, ForeignSecret)
       \/ /\ body \notin EmittedEvents
          /\ \E e \in EmittedEvents : signature = Sign(e, WebhookSecret)
    /\ reqs' = [reqs EXCEPT ![s] = WebhookBegin(payments, body, signature)]
    /\ UNCHANGED <<bookings, payments, intents>>

WebhookPaymentUpdate(s) ==
    /\ ~Returning
    /\ reqs[s].kind = "webhook" /\ reqs[s].pc = "payment_update"
    /\ \E now \in Instants : Advance(s, WebhookStep(Store(payments, bookings, reqs[s]), now))

WebhookBookingUpdate(s) ==
    /\ ~Returning
    /\ reqs[s].kind = "webhook" /\ reqs[s].pc = "booking_update"
    /\ Advance(s, WebhookStep(Store(payments, bookings, reqs[s]), NULL))

\* ------------------------------------------------------------ whole handlers
\* PUT /api/payments from the request to the response with no other handler
\* in between: the store it leaves and the handler's record.
RunConfirm(pays, bks, ints, paymentIntentId, paymentId, now) ==
    ConfirmStep(ConfirmStep(Store(pays, bks, ConfirmBegin(ints, paymentIntentId, paymentId)), now), now)

\* POST /api/webhooks/stripe from the request to the response with no other
\* handler in between.
RunWebhook(pays, bks, body, signature, now) ==
    WebhookStep(WebhookStep(Store(pays, bks, WebhookBegin(pays, body, signature)), now), now)

\* ------------------------------------------------------------ bookings
\* POST /api/bookings: a Booking of the seeded service, or no Booking when
\* the service is missing or unknown.
BookingPost(serviceId) ==
    /\ ~Returning
    /\ Len(bookings) < MaxBookings
    /\ bookings' = IF serviceId = 1 THEN Append(bookings, NewBookingRow(RoofingPrice)) ELSE bookings
    /\ UNCHANGED <<payments, intents, reqs>>

\* The second POST /api/bookings handler of the repository: it verifies the
\* service and creates the Booking without totalAmount and depositAmount, so
\* both columns take their default, 0.
BookingPostPlain(serviceId) ==
    /\ ~Returning
    /\ Len(bookings) < MaxBookings
    /\ bookings' = IF serviceId = 1
                   THEN Append(bookings, [status |-> "pending", totalAmount |-> 0, depositAmount |-> 0])
                   ELSE bookings
    /\ UNCHANGED <<payments, intents, reqs>>

\* The createBooking tool call of the voice assistant: the service is looked
\* up by name; a Booking of the service found, or none.
VapiCreateBooking(serviceName) ==
    /\ ~Returning
    /\ Len(bookings) < MaxBookings
    /\ bookings' = IF serviceName = 1 THEN Append(bookings, NewBookingRow(RoofingPrice)) ELSE bookings
    /\ UNCHANGED <<payments, intents, reqs>>

\* PATCH /api/bookings/[id]: the request body is written over the row as it is.
BookingPatch(b, status) ==
    /\ ~Returning
    /\ b \in BookingIds
    /\ bookings' = [bookings EXCEPT ![b].status = status]
    /\ UNCHANGED <<payments, intents, reqs>>

\* ------------------------------------------------------------ environment
\* The payer's attempt is declined: the intent awaits another payment method
\* and the gateway emits payment_intent.payment_failed.
GatewayAttemptFails(i) ==
    /\ ~Returning
    /\ i \in IntentIds /\ intents[i].status = "requires_payment_method"
    /\ ~intents[i].failedEv
    /\ intents' = [intents EXCEPT ![i].failedEv = TRUE]
    /\ UNCHANGED <<bookings, payments, reqs>>

GatewayProcessing(i) ==
    /\ ~Returning
    /\ i \in IntentIds /\ intents[i].status = "requires_payment_method"
    /\ intents' = [intents EXCEPT ![i].status = "processing"]
    /\ UNCHANGED <<bookings, payments, reqs>>

\* The charge is captured: the gateway emits payment_intent.succeeded.
GatewaySucceeds(i) ==
    /\ ~Returning
    /\ i \in IntentIds /\ intents[i].status \in {"requires_payment_method", "processing"}
    /\ intents' = [intents EXCEPT ![i].status = "succeeded", ![i].charge = ChargeOf(i)]
    /\ UNCHANGED <<bookings, payments, reqs>>

\* The charge is refunded at the gateway: it emits charge.refunded.
GatewayRefunds(i) ==
    /\ ~Returning
    /\ i \in IntentIds /\ intents[i].status = "succeeded" /\ ~intents[i].refunded
    /\ intents' = [intents EXCEPT ![i].refunded = TRUE]
    /\ UNCHANGED <<bookings, payments, reqs>>

\* The response of a finished handler leaves; its slot is free again.
Returns(s) ==
    /\ reqs[s].pc = "done"
    /\ reqs' = [reqs EXCEPT ![s] = Idle]
    /\ UNCHANGED <<bookings, payments, intents>>

\* ------------------------------------------------------------ payment form
\* handleSubmit of the payment form, after stripe.confirmCardPayment has
\* reported the intent as succeeded: it awaits the PUT and then calls
\* toast.success and onSuccess, without reading the response. The result is
\* whether success is announced to the payer, given the response of the PUT.
HandleSubmitAnnounces(response) == TRUE

\* The PUT the form sends: the intent id the gateway reported as succeeded,
\* with the paymentId CreateIntent answered for that intent.
SentByForm(r) ==
    /\ r.kind = "confirm"
    /\ r.intentId \in IntentIds /\ intents[r.intentId].status = "succeeded"
    /\ r.paymentId \in PaymentIds /\ payments[r.paymentId].intentId = r.intentId

\* ------------------------------------------------------------ redelivery
\* The gateway delivers the payment_intent.succeeded event of intent i, one
\* delivery at a time, again and again until a delivery has been answered
\* 200.
WebhookRedeliver(s, i) ==
    LET body == IntentEvent("payment_intent.succeeded", i)
    IN  /\ i \in IntentIds /\ intents[i].status = "succeeded" /\ ~intents[i].acked
        /\ \A t \in Slots : reqs[t].kind # "webhook"
        /\ Admits(s, WebhookBegin(payments, body, Sign(body, WebhookSecret)))
        /\ reqs' = [reqs EXCEPT ![s] = WebhookBegin(payments, body, Sign(body, WebhookSecret))]
        /\ UNCHANGED <<bookings, payments, intents>>

\* The response of a finished handler leaves; the gateway takes a 200 for a
\* payment_intent.succeeded delivery as the end of that event's deliveries.
ReturnsToGateway(s) ==
    /\ reqs[s].pc = "done"
    /\ reqs' = [reqs EXCEPT ![s] = Idle]
    /\ intents' = IF reqs[s].kind = "webhook" /\ reqs[s].code = 200
                     /\ reqs[s].body.type = "payment_intent.succeeded"
                  THEN [intents EXCEPT ![reqs[s].body.id].acked = TRUE]
                  ELSE intents
    /\ UNCHANGED <<bookings, payments>>

\* ------------------------------------------------------------ store faults
\* The store is unreachable for one awaited call (connection lost, pool
\* exhausted): the call throws and makes no change. unavailable is history
\* only: it marks the handler the call belonged to.
\*
\* A receiver that lets a store error reach the route's catch, which answers
\* 500.
WebhookStoreFailsRetryable(s) ==
    /\ ~Returning
    /\ reqs[s].kind = "webhook" /\ reqs[s].pc \in {"payment_update", "booking_update"}
    /\ reqs' = [reqs EXCEPT ![s] = Respond([@ EXCEPT !.unavailable = TRUE], 500, FALSE)]
    /\ UNCHANGED <<bookings, payments, intents>>

\* prisma.payment.update or prisma.booking.update of an event handler
\* throws: the handler's catch logs the error and POST answers
\* {received: true}.
WebhookStoreFails(s) ==
    /\ ~Returning
    /\ reqs[s].kind = "webhook" /\ reqs[s].pc \in {"payment_update", "booking_update"}
    /\ reqs' = [reqs EXCEPT ![s] = Respond([@ EXCEPT !.unavailable = TRUE], 200, TRUE)]
    /\ UNCHANGED <<bookings, payments, intents>>

\* prisma.payment.findUnique of an event handler throws, for a delivered
\* event of a handled type: caught and logged in the same way.
WebhookLookupFails(s, body) ==
    LET r == [Idle EXCEPT !.kind = "webhook", !.body = body,
                          !.sig = Sign(body, WebhookSecret), !.unavailable = TRUE]
    IN  /\ body \in EmittedEvents
        /\ body.type \in {"payment_intent.succeeded", "payment_intent.payment_failed",
                           "charge.refunded"}
        /\ Admits(s, Respond(r, 200, TRUE))
        /\ reqs' = [reqs EXCEPT ![s] = Respond(r, 200, TRUE)]
        /\ UNCHANGED <<bookings, payments, intents>>

\* prisma.payment.update or prisma.booking.update of ConfirmIntent throws:
\* the route's catch answers 500.
ConfirmStoreFails(s) ==
    /\ ~Returning
    /\ reqs[s].kind = "confirm" /\ reqs[s].pc \in {"payment_update", "booking_update"}
    /\ reqs' = [reqs EXCEPT ![s] = Respond([@ EXCEPT !.unavailable = TRUE], 500, FALSE)]
    /\ UNCHANGED <<bookings, payments, intents>>

\* ------------------------------------------------------------ specification
Init ==
    /\ bookings = <<>>
    /\ payments = <<>>
    /\ intents = <<>>
    /\ reqs = [s \in Slots |-> Idle]

\* A handler that has reached its return statement returns before anything
\* else happens (every action but Returns waits for it).
NextEngine ==
    \/ \E s \in Slots : Returns(s)
    \/ \E s \in Ready, b \in 0..(MaxBookings + 1), a \in InputAmounts, t \in InputPaymentTypes :
          CreateIntentStart(s, b, a, t)
    \/ \E s \in Ready : CreateGatewayCreate(s)
    \/ \E s \in Ready : CreateGatewayFails(s)
    \/ \E s \in Ready : CreatePaymentCreate(s)
    \/ \E s \in Ready, i \in 0..MaxPayments, p \in 0..MaxPayments : ConfirmIntentStart(s, i, p)
    \/ \E s \in Ready : ConfirmPaymentUpdate(s)
    \/ \E s \in Ready : ConfirmBookingUpdate(s)
    \/ \E s \in Ready : \E body \in EmittedEvents : WebhookDeliver(s, body)
    \/ \E s \in Ready : \E body \in CandidateEvents :
          \E signature \in {Sign(body, ForeignSecret),
                             Sign(IntentEvent("payment_intent.created", body.id), WebhookSecret)} :
             WebhookForged(s, body, signature)
    \/ \E s \in Ready : WebhookPaymentUpdate(s)
    \/ \E s \in Ready : WebhookBookingUpdate(s)
    \/ \E v \in 0..1 : BookingPost(v)
    \/ \E i \in 1..MaxPayments : GatewayAttemptFails(i)
    \/ \E i \in 1..MaxPayments : GatewayProcessing(i)
    \/ \E i \in 1..MaxPayments : GatewaySucceeds(i)
    \/ \E i \in 1..MaxPayments : GatewayRefunds(i)

Next ==
    \/ NextEngine
    \/ \E b \in 1..MaxBookings, st \in BookingStatuses : BookingPatch(b, st)

Spec == Init /\ [][Next]_vars

SpecEngine == Init /\ [][NextEngine]_vars

\* The engine over a store whose calls can fail.
NextFaulty ==
    \/ NextEngine
    \/ \E s \in Ready : WebhookStoreFails(s)
    \/ \E s \in Ready : \E body \in EmittedEvents : WebhookLookupFails(s, body)
    \/ \E s \in Ready : ConfirmStoreFails(s)

SpecFaulty == Init /\ [][NextFaulty]_vars

\* The engine with callers that also send a negative amount.
NextSigned ==
    \/ NextEngine
    \/ \E s \in Ready, b \in 1..MaxBookings, t \in InputPaymentTypes :
          CreateIntentStart(s, b, NegativeAmount, t)

SpecSigned == Init /\ [][NextSigned]_vars

\* The engine with callers that also send a paymentType that is neither
\* deposit nor full.
NextTyped ==
    \/ NextEngine
    \/ \E s \in Ready, b \in 1..MaxBookings :
          CreateIntentStart(s, b, RoofingPrice \div 2, OtherPaymentType)

SpecTyped == Init /\ [][NextTyped]_vars

\* The engine with every handler of the repository that creates a Booking.
NextBookings ==
    \/ NextEngine
    \/ \E v \in 0..1 : BookingPostPlain(v)
    \/ \E v \in 0..1 : VapiCreateBooking(v)

SpecBookings == Init /\ [][NextBookings]_vars

\* Payments made by a client that never calls ConfirmIntent, with a gateway
\* that redelivers payment_intent.succeeded until it is acknowledged. The
\* runtime runs every handler on and the gateway keeps delivering: whatever
\* can happen next is not put off forever.
NextLive ==
    \/ \E s \in Slots : ReturnsToGateway(s)
    \/ \E s \in Ready, b \in 1..MaxBookings, t \in {"deposit", "full"} :
          CreateIntentStart(s, b, RoofingPrice \div 2, t)
    \/ \E s \in Ready : CreateGatewayCreate(s)
    \/ \E s \in Ready : CreatePaymentCreate(s)
    \/ \E s \in Ready, i \in 1..MaxPayments : WebhookRedeliver(s, i)
    \/ \E s \in Ready : WebhookPaymentUpdate(s)
    \/ \E s \in Ready : WebhookBookingUpdate(s)
    \/ BookingPost(1)
    \/ \E i \in 1..MaxPayments : GatewayProcessing(i)
    \/ \E i \in 1..MaxPayments : GatewaySucceeds(i)

SpecLive == Init /\ [][NextLive]_vars /\ WF_vars(NextLive)

\* ------------------------------------------------------------ properties
\* The Booking a handler at its Booking write is about to update.
BookingOf(r) == IF r.kind = "webhook" THEN r.body.bookingId ELSE r.bookingId

\* The payment_intent.succeeded events the gateway has emitted.
SucceededEvents ==
    {IntentEvent("payment_intent.succeeded", i) : i \in {j \in IntentIds : intents[j].status = "succeeded"}}

\* The signature is the one of this raw body under the webhook secret.
Verifies(r) == r.sig.body = r.body /\ r.sig.key = WebhookSecret

\* C1: when ConfirmIntent and the payment-succeeded webhook for the same
\* Payment and the same succeeded intent overlap, a handler that finishes
\* after its rival has written the Booking's confirmation leaves the Payment
\* succeeded and has not written the Booking's confirmation itself: at most
\* one of the two performs that write.
RaceConfirmsBookingOnce ==
    \A s \in Slots :
        (reqs[s].pc = "done" /\ reqs[s].rival) =>
            /\ payments[reqs[s].paymentId].status = "succeeded"
            /\ ~reqs[s].wroteB

\* C2: the identical verified payment-succeeded event delivered twice is
\* applied once: after a first delivery that wrote the Payment, the second
\* delivery (at a later instant) performs no Payment write and no Booking
\* write, and leaves every Payment (status, charge id, paidAt) and every
\* Booking as the first delivery left them.
DuplicateSucceededAppliedOnce ==
    \A e \in SucceededEvents : \A now \in Instants :
        LET first == RunWebhook(payments, bookings, e, Sign(e, WebhookSecret), now)
            second == RunWebhook(first.payments, first.bookings, e, Sign(e, WebhookSecret), now + 1)
        IN  first.r.wroteP =>
                /\ ~second.r.wroteP
                /\ ~second.r.wroteB
                /\ second.payments = first.payments
                /\ second.bookings = first.bookings

\* The status changes the Payment state machine permits.
AllowedStatusChanges ==
    {<<"pending", "succeeded">>, <<"pending", "failed">>, <<"succeeded", "refunded">>}

\* C3: every change of a Payment's status is pending to succeeded, pending to
\* failed or succeeded to refunded.
PaymentStatusMovesForward ==
    [][\A p \in DOMAIN payments :
          payments'[p].status # payments[p].status =>
              <<payments[p].status, payments'[p].status>> \in AllowedStatusChanges]_vars

\* The payment_intent.payment_failed events the gateway has emitted.
FailedEvents ==
    {IntentEvent("payment_intent.payment_failed", i) : i \in {j \in IntentIds : intents[j].failedEv}}

\* C4: a verified payment-failed event delivered for the intent of a Payment
\* that has status succeeded leaves the Payment's status succeeded.
FailedAfterSucceededIsNoOp ==
    \A e \in FailedEvents : \A now \in Instants :
        LET p == FindByIntent(payments, e.id)
            after == RunWebhook(payments, bookings, e, Sign(e, WebhookSecret), now)
        IN  (p # NULL /\ payments[p].status = "succeeded") =>
                after.payments[p].status = "succeeded"

\* No handler stands between its Payment write and its Booking write.
NoHandlerPartWay == \A s \in Slots : ~(reqs[s].pc = "booking_update")

\* The Payment has been written as succeeded at some time.
HasReachedSucceeded(p) == payments[p].paidAt # NULL

\* C5: whenever no handler is between its Payment write and its Booking
\* write, a Booking has status confirmed if and only if some Payment of it
\* with paymentType full has reached succeeded (paidAt is set by exactly the
\* writes that set succeeded, and never cleared). A Payment write that fails
\* leaves the Payment as it was, and no Booking write fails: Bookings are
\* never deleted.
ConfirmedIffFullPaymentSucceeded ==
    NoHandlerPartWay =>
        \A b \in BookingIds :
            bookings[b].status = "confirmed"
                <=> \E p \in PaymentIds : /\ payments[p].bookingId = b
                                          /\ payments[p].paymentType = "full"
                                          /\ HasReachedSucceeded(p)

\* C6: the engine writes a Booking's status only when the Booking is pending
\* (so at most once per Booking): no handler performs its Booking write on a
\* Booking that is already confirmed, completed or cancelled.
EngineWritesPendingBookingOnly ==
    [][\A s \in Slots :
          (reqs[s].pc = "booking_update" /\ reqs'[s].wroteB)
              => bookings[BookingOf(reqs[s])].status = "pending"]_vars

\* C7: a webhook request whose signature does not verify against its raw
\* body and the webhook secret is answered 400 in its first step, no event
\* handler runs for it (no Payment is looked up, no write is made), and the
\* step that takes the request changes no Payment and no Booking.
BadSignatureRejected ==
    [][\A s \in Slots :
          (reqs'[s].kind = "webhook" /\ ~Verifies(reqs'[s])) =>
              /\ reqs'[s].pc = "done" /\ reqs'[s].code = 400
              /\ reqs'[s].paymentId = NULL
              /\ ~reqs'[s].wroteP /\ ~reqs'[s].wroteB
              /\ (reqs[s] = Idle => payments' = payments /\ bookings' = bookings)]_vars

\* A forged payment-succeeded event about an existing Payment, under a
\* signature replayed from a genuine event, has been answered 400.
BadSignatureRejectedWitness ==
    \E s \in Slots :
        /\ reqs[s].kind = "webhook" /\ ~Verifies(reqs[s])
        /\ reqs[s].sig.key = WebhookSecret
        /\ reqs[s].body.type = "payment_intent.succeeded"
        /\ FindByIntent(payments, reqs[s].body.id) # NULL
        /\ payments[FindByIntent(payments, reqs[s].body.id)].status = "pending"
        /\ reqs[s].code = 400

\* C8: for a Payment whose gateway intent has succeeded, ConfirmIntent then
\* the payment-succeeded webhook, and the webhook then ConfirmIntent, end
\* with the Payment succeeded, the same stored charge id and the same
\* Booking statuses.
ConfirmAndWebhookConverge ==
    \A p \in PaymentIds : \A n1 \in Instants, n2 \in Instants :
        LET i == payments[p].intentId
            e == IntentEvent("payment_intent.succeeded", i)
            c == RunConfirm(payments, bookings, intents, i, p, n1)
            cw == RunWebhook(c.payments, c.bookings, e, Sign(e, WebhookSecret), n2)
            w == RunWebhook(payments, bookings, e, Sign(e, WebhookSecret), n1)
            wc == RunConfirm(w.payments, w.bookings, intents, i, p, n2)
        IN  intents[i].status = "succeeded" =>
                /\ cw.payments[p].status = "succeeded"
                /\ wc.payments[p].status = "succeeded"
                /\ cw.payments[p].chargeId = wc.payments[p].chargeId
                /\ \A b \in BookingIds : cw.bookings[b].status = wc.bookings[b].status

\* C9: a CreateIntent that answers 200 has added exactly one Payment row,
\* with status pending and an intent id no earlier row has; and no two
\* Payment rows ever share an intent id.
CreateAddsOnePendingPayment ==
    [][/\ \A s \in Slots :
             (reqs[s].kind = "create" /\ reqs[s].pc # "done"
              /\ reqs'[s].pc = "done" /\ reqs'[s].code = 200) =>
                 /\ Len(payments') = Len(payments) + 1
                 /\ SubSeq(payments', 1, Len(payments)) = payments
                 /\ payments'[Len(payments')].status = "pending"
                 /\ payments'[Len(payments')].intentId = reqs[s].intentId
                 /\ reqs'[s].paymentId = Len(payments')
                 /\ \A p \in DOMAIN payments :
                        payments[p].intentId # payments'[Len(payments')].intentId
       /\ \A p \in DOMAIN payments', q \in DOMAIN payments' :
             p # q => payments'[p].intentId # payments'[q].intentId]_vars

\* A second CreateIntent has answered 200 beside an earlier Payment row.
CreateAddsOnePendingPaymentWitness ==
    \E s \in Slots :
        /\ reqs[s].kind = "create" /\ reqs[s].pc = "done" /\ reqs[s].code = 200
        /\ Len(payments) >= 2
        /\ reqs[s].paymentId = Len(payments)

\* C10: a CreateIntent that fails changes no Payment and no Booking in any of
\* its steps; it answers 400 when bookingId or amount is missing or the
\* Booking is absent, and then no gateway intent has been created, and 500
\* when the gateway's intent creation fails.
CreateFailureLeavesStore ==
    [][\A s \in Slots :
          (reqs'[s].kind = "create" /\ reqs'[s] # reqs[s]
           /\ ~(reqs'[s].pc = "done" /\ reqs'[s].code = 200)) =>
              /\ payments' = payments /\ bookings' = bookings
              /\ ~reqs'[s].wroteP /\ ~reqs'[s].wroteB
              /\ (reqs'[s].pc = "done" =>
                     IF reqs'[s].bookingId = NULL \/ reqs'[s].amount = NULL
                        \/ reqs'[s].bookingId \notin BookingIds
                     THEN /\ reqs'[s].code = 400
                          /\ reqs'[s].intentId = NULL
                          /\ intents' = intents
                     ELSE reqs'[s].code = 500)]_vars

\* The gateway has refused an intent for an existing Booking that already
\* has a Payment.
CreateFailureLeavesStoreWitness ==
    \E s \in Slots :
        /\ reqs[s].kind = "create" /\ reqs[s].pc = "done" /\ reqs[s].code = 500
        /\ reqs[s].bookingId \in BookingIds
        /\ Len(payments) >= 1

\* C11: a ConfirmIntent (with both fields present) whose gateway intent does
\* not have status succeeded returns in its first step without a store
\* write, leaving every Payment and every Booking as they were; it answers
\* 200 with success false when the intent is processing, and 400 for any
\* other status.
ConfirmNotSucceededChangesNothing ==
    [][\A s \in Slots :
          (/\ reqs[s] = Idle /\ reqs'[s].kind = "confirm"
           /\ reqs'[s].paymentId # NULL
           /\ reqs'[s].intentId \in IntentIds
           /\ intents[reqs'[s].intentId].status # "succeeded") =>
              /\ reqs'[s].pc = "done"
              /\ ~reqs'[s].wroteP /\ ~reqs'[s].wroteB
              /\ payments' = payments /\ bookings' = bookings
              /\ IF intents[reqs'[s].intentId].status = "processing"
                 THEN reqs'[s].code = 200 /\ ~reqs'[s].success
                 ELSE reqs'[s].code = 400]_vars

\* A ConfirmIntent for a pending Payment whose intent is still processing has
\* been answered 200 with success false.
ConfirmNotSucceededChangesNothingWitness ==
    \E s \in Slots :
        /\ reqs[s].kind = "confirm" /\ reqs[s].pc = "done"
        /\ reqs[s].code = 200 /\ ~reqs[s].success
        /\ reqs[s].paymentId \in PaymentIds
        /\ payments[reqs[s].paymentId].intentId = reqs[s].intentId
        /\ payments[reqs[s].paymentId].status = "pending"
        /\ intents[reqs[s].intentId].status = "processing"

\* C12: a ConfirmIntent whose intent the gateway reports as succeeded and
\* whose paymentId names no Payment row is answered with a 4xx response and
\* has written no Payment and no Booking.
ConfirmUnknownPaymentIsNotFound ==
    \A s \in Slots :
        (/\ reqs[s].kind = "confirm" /\ reqs[s].pc = "done"
         /\ reqs[s].intentId \in IntentIds
         /\ intents[reqs[s].intentId].status = "succeeded"
         /\ reqs[s].paymentId # NULL
         /\ reqs[s].paymentId \notin PaymentIds) =>
            /\ reqs[s].code \in 400..499
            /\ ~reqs[s].wroteP /\ ~reqs[s].wroteB

\* A verified event the receiver cannot apply: its type is not one the
\* receiver handles, or no Payment carries the id it looks up (the charge id
\* for charge.refunded, the intent id otherwise).
Inapplicable(body) ==
    \/ body.type \notin {"payment_intent.succeeded", "payment_intent.payment_failed",
                         "charge.refunded"}
    \/ /\ body.type = "charge.refunded"
       /\ \A p \in PaymentIds : payments[p].chargeId # body.id
    \/ /\ body.type \in {"payment_intent.succeeded", "payment_intent.payment_failed"}
       /\ \A p \in PaymentIds : payments[p].intentId # body.id

\* C13: a verified webhook event that cannot be applied (no Payment matches
\* its intent id or charge id, or its type is not recognised) is answered
\* 200 in the step that takes it, with no Payment write and no Booking
\* write, and every Payment and Booking is left as it was.
InapplicableEventAcknowledged ==
    [][\A s \in Slots :
          (/\ reqs[s] = Idle /\ reqs'[s].kind = "webhook"
           /\ Verifies(reqs'[s])
           /\ Inapplicable(reqs'[s].body)) =>
              /\ reqs'[s].pc = "done" /\ reqs'[s].code = 200 /\ reqs'[s].success
              /\ ~reqs'[s].wroteP /\ ~reqs'[s].wroteB
              /\ payments' = payments /\ bookings' = bookings]_vars

\* A payment-failed event has been acknowledged while no Payment row carried
\* its intent id.
InapplicableEventAcknowledgedWitness ==
    \E s \in Slots :
        /\ reqs[s].kind = "webhook" /\ reqs[s].pc = "done" /\ reqs[s].code = 200
        /\ Verifies(reqs[s])
        /\ reqs[s].body.type = "payment_intent.payment_failed"
        /\ \A p \in PaymentIds : payments[p].intentId # reqs[s].body.id

\* C14: every webhook request whose signature verifies is answered 200
\* {received: true}, whatever its event type, whether or not a Payment
\* matches it, and also when a store read or write throws while the event is
\* applied; a webhook request is answered anything else only when its
\* signature does not verify.
VerifiedAlwaysAcknowledged ==
    \A s \in Slots :
        (reqs[s].kind = "webhook" /\ reqs[s].pc = "done") =>
            /\ Verifies(reqs[s]) => (reqs[s].code = 200 /\ reqs[s].success)
            /\ reqs[s].code # 200 => ~Verifies(reqs[s])

\* A verified payment-succeeded event whose store write threw after the
\* Payment was found has been acknowledged.
VerifiedAlwaysAcknowledgedWitness ==
    \E s \in Slots :
        /\ reqs[s].kind = "webhook" /\ reqs[s].pc = "done"
        /\ Verifies(reqs[s])
        /\ reqs[s].body.type = "payment_intent.succeeded"
        /\ reqs[s].paymentId \in PaymentIds
        /\ reqs[s].unavailable
        /\ reqs[s].code = 200

\* C15: a verified payment-succeeded, payment-failed or charge-refunded
\* event during whose application a store call failed because the store was
\* unavailable is answered with a non-2xx response.
StoreFaultIsRetryable ==
    \A s \in Slots :
        (/\ reqs[s].kind = "webhook" /\ reqs[s].pc = "done"
         /\ Verifies(reqs[s])
         /\ reqs[s].unavailable) =>
            reqs[s].code \notin 200..299

\* C16: a verified charge-refunded event whose charge id is the stored
\* charge id of a Payment is applied to that Payment, found by its charge
\* id: the handler's write sets that Payment's status to refunded (from
\* succeeded in particular) and changes nothing else of it, no other
\* Payment and no Booking, and the event is acknowledged with 200.
RefundSetsRefundedOnly ==
    [][\A s \in Slots :
          /\ (/\ reqs[s] = Idle /\ reqs'[s].kind = "webhook"
              /\ Verifies(reqs'[s])
              /\ reqs'[s].body.type = "charge.refunded"
              /\ \E p \in PaymentIds : payments[p].chargeId = reqs'[s].body.id) =>
                 /\ reqs'[s].pc = "payment_update"
                 /\ reqs'[s].paymentId \in PaymentIds
                 /\ payments[reqs'[s].paymentId].chargeId = reqs'[s].body.id
                 /\ payments' = payments /\ bookings' = bookings
          /\ (/\ reqs[s].kind = "webhook" /\ reqs[s].pc = "payment_update"
              /\ reqs[s].body.type = "charge.refunded"
              /\ reqs'[s] # reqs[s]) =>
                 /\ payments[reqs[s].paymentId].chargeId = reqs[s].body.id
                 /\ payments' = [payments EXCEPT ![reqs[s].paymentId].status = "refunded"]
                 /\ bookings' = bookings
                 /\ reqs'[s].pc = "done" /\ reqs'[s].code = 200
                 /\ reqs'[s].wroteP /\ ~reqs'[s].wroteB]_vars

\* A charge-refunded event has set the succeeded full Payment of a confirmed
\* Booking to refunded, and the Booking is still confirmed.
RefundSetsRefundedOnlyWitness ==
    \E s \in Slots :
        /\ reqs[s].kind = "webhook" /\ reqs[s].pc = "done" /\ reqs[s].wroteP
        /\ reqs[s].body.type = "charge.refunded"
        /\ payments[reqs[s].paymentId].status = "refunded"
        /\ payments[reqs[s].paymentId].chargeId = reqs[s].body.id
        /\ payments[reqs[s].paymentId].paidAt # NULL
        /\ bookings[payments[reqs[s].paymentId].bookingId].status = "confirmed"

\* Every Payment of Booking b is a deposit.
AllDeposits(b) == \A p \in PaymentIds : payments[p].bookingId = b => payments[p].paymentType = "deposit"

DepositSuccessConfirmsBooking ==
    \A s \in Slots :
        (/\ reqs[s].kind \in {"confirm", "webhook"} /\ reqs[s].pc = "done" /\ reqs[s].wroteP
         /\ payments[reqs[s].paymentId].paymentType = "deposit"
         /\ payments[reqs[s].paymentId].status = "succeeded") =>
            bookings[payments[reqs[s].paymentId].bookingId].status = "confirmed"

\* Slot s performs, in this step, the Booking write of a full-payment
\* success on Booking b.
FullPaymentConfirms(s, b) ==
    /\ reqs[s].pc = "booking_update" /\ reqs'[s].wroteB
    /\ BookingOf(reqs[s]) = b
    /\ \/ reqs[s].kind = "confirm" /\ reqs[s].paymentType = "full"
       \/ /\ reqs[s].kind = "webhook"
          /\ reqs[s].body.type = "payment_intent.succeeded"
          /\ reqs[s].body.paymentType = "full"

\* C19: every step that takes a Booking from pending to confirmed is the
\* Booking write of a full-payment success in ConfirmIntent or in the
\* payment-succeeded webhook; no other operation, PATCH on the booking
\* included, makes that change.
OnlyFullPaymentConfirms ==
    [][\A b \in BookingIds :
          (bookings[b].status = "pending" /\ bookings'[b].status = "confirmed") =>
              \E s \in Slots : FullPaymentConfirms(s, b)]_vars

\* C20: a CreateIntent whose amount is zero or negative is answered 400, and
\* no gateway intent and no Payment row has an amount less than or equal to
\* zero.
CreateRejectsNonPositiveAmount ==
    /\ \A s \in Slots :
          (reqs[s].kind = "create" /\ reqs[s].pc = "done" /\ reqs[s].amount <= 0) =>
              reqs[s].code = 400
    /\ \A p \in PaymentIds : payments[p].amount > 0
    /\ \A i \in IntentIds : intents[i].amount > 0

\* C21: every stored Payment has paymentType deposit or full, and a
\* CreateIntent whose paymentType is any other value has created no Payment.
PaymentTypeIsDepositOrFull ==
    /\ \A p \in PaymentIds : payments[p].paymentType \in {"deposit", "full"}
    /\ \A s \in Slots :
          (reqs[s].kind = "create" /\ reqs[s].pc = "done"
           /\ reqs[s].paymentType \notin {"deposit", "full"}) => ~reqs[s].wroteP

CreatedColumns(row) == <<row.bookingId, row.amount, row.currency, row.paymentType, row.intentId>>

BookingAmountsAreSnapshot ==
    /\ [](\A b \in BookingIds : /\ bookings[b].totalAmount = RoofingPrice
                                /\ bookings[b].depositAmount = RoofingPrice \div 2)
    /\ [][/\ Len(bookings') > Len(bookings) => bookings'[Len(bookings')].status = "pending"
          /\ \A b \in DOMAIN bookings :
                /\ bookings'[b].totalAmount = bookings[b].totalAmount
                /\ bookings'[b].depositAmount = bookings[b].depositAmount]_vars

\* Booking b has a Payment with status failed.
HasFailedPayment(b) == \E p \in PaymentIds : payments[p].bookingId = b /\ payments[p].status = "failed"

\* C25: a CreateIntent for a Booking that has a failed Payment is accepted
\* and adds one pending Payment with an intent id of its own, leaving the
\* earlier rows as they were; and when the new Payment's intent has
\* succeeded, its success through ConfirmIntent or through the
\* payment-succeeded webhook writes the new Payment as succeeded, leaves the
\* failed row as it was and, for a full Payment, confirms the Booking.
RetryAfterFailure ==
    /\ [][\A s \in Slots :
             /\ (/\ reqs[s] = Idle /\ reqs'[s].kind = "create"
                 /\ reqs'[s].bookingId \in BookingIds /\ reqs'[s].amount # NULL
                 /\ HasFailedPayment(reqs'[s].bookingId)) =>
                    reqs'[s].pc = "gateway_create"
             /\ (/\ reqs[s].kind = "create" /\ reqs[s].pc = "payment_create"
                 /\ reqs'[s].pc = "done"
                 /\ HasFailedPayment(reqs[s].bookingId)) =>
                    /\ reqs'[s].code = 200
                    /\ payments' = Append(payments, NewPaymentRow(reqs[s].bookingId, reqs[s].amount,
                                                                  reqs[s].paymentType, reqs[s].intentId))
                    /\ \A p \in PaymentIds : payments[p].intentId # reqs[s].intentId]_vars
    /\ [](\A p1 \in PaymentIds, p2 \in PaymentIds : \A now \in Instants :
             LET i == payments[p2].intentId
                 b == payments[p2].bookingId
                 e == IntentEvent("payment_intent.succeeded", i)
                 c == RunConfirm(payments, bookings, intents, i, p2, now)
                 w == RunWebhook(payments, bookings, e, Sign(e, WebhookSecret), now)
             IN  (/\ p1 < p2 /\ payments[p1].bookingId = b
                  /\ payments[p1].status = "failed" /\ payments[p2].status = "pending"
                  /\ intents[i].status = "succeeded") =>
                     \A after \in {c, w} :
                        /\ after.payments[p2].status = "succeeded"
                        /\ after.payments[p1] = payments[p1]
                        /\ payments[p2].paymentType = "full" => after.bookings[b].status = "confirmed")

\* C26: a ConfirmIntent whose paymentIntentId is not the intent id stored on
\* the Payment its paymentId names writes neither that Payment nor its
\* Booking; and a Payment that a ConfirmIntent has written as succeeded is
\* one whose own gateway intent has status succeeded.
ConfirmChecksIntentOfPayment ==
    \A s \in Slots :
        (reqs[s].kind = "confirm" /\ reqs[s].pc = "done" /\ reqs[s].paymentId \in PaymentIds) =>
            /\ payments[reqs[s].paymentId].intentId # reqs[s].intentId =>
                  ~reqs[s].wroteP /\ ~reqs[s].wroteB
            /\ reqs[s].wroteP =>
                  intents[payments[reqs[s].paymentId].intentId].status = "succeeded"

\* C27: when a ConfirmIntent or a webhook handler has returned, the Payment
\* it handled is not a succeeded full Payment of a Booking that is still
\* pending, also when the store call that writes the Booking failed after
\* the Payment was written: the two writes take effect together or not at
\* all.
PaymentAndBookingWrittenTogether ==
    \A s \in Slots :
        (/\ reqs[s].kind \in {"confirm", "webhook"} /\ reqs[s].pc = "done"
         /\ reqs[s].paymentId \in PaymentIds
         /\ payments[reqs[s].paymentId].paymentType = "full"
         /\ payments[reqs[s].paymentId].status = "succeeded") =>
            /\ bookings[payments[reqs[s].paymentId].bookingId].status # "pending"
            /\ reqs[s].wroteP => reqs[s].wroteB

\* C28: with a gateway that redelivers payment_intent.succeeded until it is
\* answered 200, and a client that never calls ConfirmIntent, whenever the
\* gateway intent of a CreateIntent has succeeded, the Payment of that
\* intent eventually has status succeeded, also when the first delivery
\* arrives before CreateIntent has persisted the Payment row.
SucceededIntentEventuallyRecorded ==
    \A i \in 1..MaxPayments :
        (i \in IntentIds /\ intents[i].status = "succeeded")
            ~> (\E p \in PaymentIds : payments[p].intentId = i /\ payments[p].status = "succeeded")

\* C29: the payment form announces success to the payer only when the
\* confirm call it sent has been answered 200 with success true.
FormAnnouncesConfirmedSuccessOnly ==
    \A s \in Slots :
        (/\ reqs[s].pc = "done" /\ SentByForm(reqs[s])
         /\ HandleSubmitAnnounces(reqs[s])) =>
            (reqs[s].code = 200 /\ reqs[s].success)

=============================================================================
